---- MODULE Spec2Model ----
(***************************************************************************)
(* Model of angular_frontend/src/app/callback-helper.service.ts: the       *)
(* argument splitter, the four policy interpreters (update, context,       *)
(* callback, show_context_menu), the event binder and the document-level   *)
(* click handler.                                                          *)
(*                                                                         *)
(* A JavaScript string is a sequence of one-character strings, so that     *)
(* charAt, substring, slice, the regular expressions and String.replace    *)
(* are computed character by character.                                    *)
(***************************************************************************)
EXTENDS Integers, Sequences, FiniteSets, TLC

VARIABLES
    aspArguments,   \* splitter harness: the argument string
    splits,         \* splitter harness: the value returned by aspArgumentSplitter
    splitDone,      \* splitter harness: the call has returned
    whens,          \* the WhenDto objects of the element (dos), by position
    configured,     \* the policy string each WhenDto was constructed with
    allEvents,      \* the listeners' allEvents arrays, by interaction kind:
                    \* positions in whens; empty where no listener is attached
    bound,          \* setCallbacks has run for the element
    cursor,         \* html.style.cursor
    context,        \* ContextService: the context store, key -> value
    elements,       \* ElementLookupService: id -> element lookup entry
    contextMenus,   \* ContextMenuService.contextMenus: the registered keys
    dom,            \* the menu nodes of the document: id -> style
    trace,          \* what the handler that ran last did, in order: the
                    \* interpreters it entered and the collaborators it called
    hung            \* a handler is in a loop that never ends

splitVars == <<aspArguments, splits, splitDone>>

binderVars == <<configured, allEvents, bound, cursor>>

worldVars == <<whens, context, elements, dom, trace, hung>>

vars == <<aspArguments, splits, splitDone, whens, configured, allEvents, bound,
          cursor, context, elements, contextMenus, dom, trace, hung>>

----------------------------------------------------------------------------
(* Bounds *)

\* longest argument string enumerated for the splitter
MaxLen == 4

\* a callback whose policy still holds a marker after this many replacements
\* is taken never to return
MaxIter == 8

\* most pieces a policy string of the callback harness is made of
MaxPieces == 3

\* longest context value enumerated for the callback harness
MaxValueLen == 2

\* most policies in the policy list of the element
MaxPolicies == 3

\* most attributes an element of the update harness starts with
MaxAttributes == 2

----------------------------------------------------------------------------
(* Strings *)

\* all sequences over S of length at most n
RECURSIVE StringsUpTo(_, _)
StringsUpTo(S, n) ==
    IF n = 0 THEN {<<>>}
    ELSE LET shorter == StringsUpTo(S, n - 1)
         IN  shorter \cup {Append(s, c) : s \in {t \in shorter : Len(t) = n - 1}, c \in S}

\* the strings of ss joined by sep
RECURSIVE Join(_, _)
Join(ss, sep) ==
    IF ss = <<>> THEN <<>>
    ELSE IF Len(ss) = 1 THEN ss[1]
    ELSE ss[1] \o sep \o Join(Tail(ss), sep)

----------------------------------------------------------------------------
(* aspArgumentSplitter *)

\* one iteration of the for loop: st is the loop state, curChar the character
\* at position st.index (1-based); stop is the break
\* (variant: no break when the level goes negative)
SplitterStepNoBreak(st, curChar) ==
    IF curChar = "(" THEN
        [st EXCEPT !.bracketLevel = @ + 1, !.curString = Append(@, curChar),
                   !.index = @ + 1]
    ELSE IF curChar = ")" THEN
        [st EXCEPT !.bracketLevel = @ - 1, !.curString = Append(@, curChar),
                   !.index = @ + 1]
    ELSE IF curChar = "," /\ st.bracketLevel = 0 THEN
        [st EXCEPT !.returnStrings = Append(@, st.curString), !.curString = <<>>,
                   !.index = @ + 1]
    ELSE
        [st EXCEPT !.curString = Append(@, curChar), !.index = @ + 1]

\* (variant: every comma splits, whatever the bracket level)
SplitterStepAnyComma(st, curChar) ==
    IF curChar = "(" THEN
        [st EXCEPT !.bracketLevel = @ + 1, !.curString = Append(@, curChar),
                   !.index = @ + 1]
    ELSE IF curChar = ")" THEN
        [st EXCEPT !.bracketLevel = @ - 1, !.curString = Append(@, curChar),
                   !.index = @ + 1, !.stop = (st.bracketLevel - 1 < 0)]
    ELSE IF curChar = "," THEN
        [st EXCEPT !.returnStrings = Append(@, st.curString), !.curString = <<>>,
                   !.index = @ + 1]
    ELSE
        [st EXCEPT !.curString = Append(@, curChar), !.index = @ + 1]

SplitterStep(st, curChar) ==
    IF curChar = "(" THEN
        [st EXCEPT !.bracketLevel = @ + 1, !.curString = Append(@, curChar),
                   !.index = @ + 1]
    ELSE IF curChar = ")" THEN
        [st EXCEPT !.bracketLevel = @ - 1, !.curString = Append(@, curChar),
                   !.index = @ + 1, !.stop = (st.bracketLevel - 1 < 0)]
    ELSE IF curChar = "," /\ st.bracketLevel = 0 THEN
        [st EXCEPT !.returnStrings = Append(@, st.curString), !.curString = <<>>,
                   !.index = @ + 1]
    ELSE
        [st EXCEPT !.curString = Append(@, curChar), !.index = @ + 1]

RECURSIVE SplitterLoop(_, _)
SplitterLoop(s, st) ==
    IF st.stop \/ st.index > Len(s) THEN st
    ELSE SplitterLoop(s, SplitterStep(st, s[st.index]))

\* the trailing push of the accumulator
\* (variant: an empty accumulator is not pushed)
SplitterFlushNonEmpty(st) ==
    IF st.curString = <<>> THEN st.returnStrings
    ELSE Append(st.returnStrings, st.curString)

SplitterFlush(st) == Append(st.returnStrings, st.curString)

aspArgumentSplitter(s) ==
    SplitterFlush(SplitterLoop(s,
        [returnStrings |-> <<>>, curString |-> <<>>, bracketLevel |-> 0,
         index |-> 1, stop |-> FALSE]))

----------------------------------------------------------------------------
(* Characters *)

Digits == {"0", "1", "2", "3", "4", "5", "6", "7", "8", "9"}

LowerCase == <<"a", "b", "c", "d", "e", "f", "g", "h", "i", "j", "k", "l", "m",
               "n", "o", "p", "q", "r", "s", "t", "u", "v", "w", "x", "y", "z">>

UpperCase == <<"A", "B", "C", "D", "E", "F", "G", "H", "I", "J", "K", "L", "M",
               "N", "O", "P", "Q", "R", "S", "T", "U", "V", "W", "X", "Y", "Z">>

\* String.prototype.toUpperCase on one character: a lower-case letter maps to
\* its capital, every other character to itself
ToUpperCase(c) ==
    IF \E i \in 1..26 : LowerCase[i] = c
    THEN UpperCase[CHOOSE i \in 1..26 : LowerCase[i] = c]
    ELSE c

----------------------------------------------------------------------------
(* The state a handler works on, and its trace *)

\* the state at the start of a handler: an empty trace, propagation not stopped
World ==
    [whens |-> whens, context |-> context, elements |-> elements, dom |-> dom,
     trace |-> <<>>, hung |-> hung, stopped |-> FALSE]

\* the state the handler leaves
SetWorld(w) ==
    /\ whens' = w.whens
    /\ context' = w.context
    /\ elements' = w.elements
    /\ dom' = w.dom
    /\ trace' = w.trace
    /\ hung' = w.hung

\* context, elements and dom are the stores as they are when the entry is made
Entry(op, id, arg, w) ==
    [op |-> op, when |-> id, arg |-> arg,
     context |-> w.context, elements |-> w.elements, dom |-> w.dom]

Log(w, op, id, arg) == [w EXCEPT !.trace = Append(@, Entry(op, id, arg, w))]

\* ContextService.retrieveContextValue: the value stored for key, the empty
\* string when the store holds none
retrieveContextValue(ctx, key) ==
    IF key \in DOMAIN ctx THEN ctx[key] ELSE <<>>

\* ContextService.addContext: last write wins
addContext(ctx, key, value) ==
    [k \in (DOMAIN ctx) \cup {key} |-> IF k = key THEN value ELSE ctx[k]]

----------------------------------------------------------------------------
(* handleCallback *)

\* the literal part of /_context_value\(([^)]*)\)/ before the group
ContextMarker ==
    <<"_", "c", "o", "n", "t", "e", "x", "t", "_", "v", "a", "l", "u", "e", "(">>

\* the regular expression matches at position i: the literal, then every
\* character up to the first closing parenthesis
MarkerAt(s, i) ==
    /\ i + Len(ContextMarker) - 1 <= Len(s)
    /\ SubSeq(s, i, i + Len(ContextMarker) - 1) = ContextMarker
    /\ \E j \in (i + Len(ContextMarker))..Len(s) : s[j] = ")"

HasMarker(s) == \E i \in 1..Len(s) : MarkerAt(s, i)

\* regex.exec: the leftmost match, index 0 for null
RegexExec(s) ==
    IF ~HasMarker(s) THEN [index |-> 0, last |-> 0, group |-> <<>>]
    ELSE LET i == CHOOSE i \in 1..Len(s) :
                      MarkerAt(s, i) /\ \A h \in 1..(i - 1) : ~MarkerAt(s, h)
             g == i + Len(ContextMarker)
             j == CHOOSE j \in g..Len(s) :
                      s[j] = ")" /\ \A h \in g..(j - 1) : s[h] # ")"
         IN  [index |-> i, last |-> j, group |-> SubSeq(s, g, j - 1)]

\* isNumber: /^[0-9]*$/
isNumber(s) == \A i \in 1..Len(s) : s[i] \in Digits

\* the value as written into the policy string (lines 182-186)
Quote(new_value) ==
    IF ~isNumber(new_value) /\ Len(new_value) > 0
       /\ new_value[1] = ToUpperCase(new_value[1])
    THEN <<"\"">> \o new_value \o <<"\"">>
    ELSE new_value

\* the characters U+0060 and U+0027 of a replacement string, each one element
\* of a sequence like every other character
Grave == "grave accent"
Apostrophe == "apostrophe"

\* the replacement text String.prototype.replace builds from a replacement
\* string: $$, $&, $ U+0060, $ U+0027 and $n / $nn are patterns, every other character is
\* copied; groups are the captures of the match (none or one here), and a $n
\* that names no capture is copied
RECURSIVE GetSubstitution(_, _, _, _, _)
GetSubstitution(template, matched, groups, before, after) ==
    IF template = <<>> THEN <<>>
    ELSE IF template[1] # "$" \/ Len(template) = 1 THEN
        <<template[1]>> \o GetSubstitution(Tail(template), matched, groups, before, after)
    ELSE LET c    == template[2]
             rest == SubSeq(template, 3, Len(template))
         IN  IF c = "$" THEN
                 <<"$">> \o GetSubstitution(rest, matched, groups, before, after)
             ELSE IF c = "&" THEN
                 matched \o GetSubstitution(rest, matched, groups, before, after)
             ELSE IF c = Grave THEN
                 before \o GetSubstitution(rest, matched, groups, before, after)
             ELSE IF c = Apostrophe THEN
                 after \o GetSubstitution(rest, matched, groups, before, after)
             ELSE IF Len(groups) >= 1 /\ c = "0" /\ Len(template) >= 3
                     /\ template[3] = "1" THEN
                 groups[1] \o GetSubstitution(SubSeq(template, 4, Len(template)),
                                              matched, groups, before, after)
             ELSE IF Len(groups) >= 1 /\ c = "1" THEN
                 groups[1] \o GetSubstitution(rest, matched, groups, before, after)
             ELSE
                 <<"$">> \o GetSubstitution(Tail(template), matched, groups, before, after)

\* policy_string.replace(regex, new_value): the first match is replaced
ReplaceMarker(s, new_value) ==
    LET m       == RegexExec(s)
        before  == SubSeq(s, 1, m.index - 1)
        after   == SubSeq(s, m.last + 1, Len(s))
        matched == SubSeq(s, m.index, m.last)
    IN  IF m.index = 0 THEN s
        ELSE before \o GetSubstitution(new_value, matched, <<m.group>>, before, after)
                    \o after

\* the while loop of lines 173-190; returned is FALSE when the loop is still
\* running after fuel replacements
RECURSIVE CallbackLoop(_, _, _)
CallbackLoop(policy_string, ctx, fuel) ==
    LET match == RegexExec(policy_string)
    IN  IF match.index = 0 THEN [returned |-> TRUE, policy |-> policy_string]
        ELSE IF fuel = 0 THEN [returned |-> FALSE, policy |-> policy_string]
        ELSE CallbackLoop(
                 ReplaceMarker(policy_string,
                               Quote(retrieveContextValue(ctx, match.group))),
                 ctx, fuel - 1)

handleCallback(w, id) ==
    LET entered == Log(w, "handleCallback", id, w.whens[id].policy)
        loop    == CallbackLoop(w.whens[id].policy, w.context, MaxIter)
    IN  IF ~loop.returned THEN [entered EXCEPT !.hung = TRUE]
        ELSE Log([entered EXCEPT !.whens[id].policy = loop.policy],
                 "policyPost", id, loop.policy)

----------------------------------------------------------------------------
(* handleUpdate *)

\* the value of an array element that does not exist
UNDEFINED == <<"undefined">>

\* policy.substring(1) followed by policy.slice(0,-1)
StripParens(policy) ==
    LET rest == SubSeq(policy, 2, Len(policy))
    IN  SubSeq(rest, 1, Len(rest) - 1)

\* splits[i], 0-based as in the source
At(ss, i) == IF i + 1 <= Len(ss) THEN ss[i + 1] ELSE UNDEFINED

\* ElementLookupService.getElement finds an entry for id
Found(w, id) == id \in DOMAIN w.elements

\* lines 128-141: every entry with the key is overwritten; the new entry is
\* pushed when there was none
\* (variant: the new entry is pushed whether or not the key was found)
UpsertAlwaysPush(attributes, id, key, value) ==
    LET new      == [id |-> id, key |-> key, value |-> value]
        replaced == [i \in 1..Len(attributes) |->
                        IF attributes[i].key = key THEN new ELSE attributes[i]]
    IN  Append(replaced, new)

\* (variant: found is what the last comparison of the loop gave)
UpsertFoundLast(attributes, id, key, value) ==
    LET new      == [id |-> id, key |-> key, value |-> value]
        found    == Len(attributes) > 0 /\ attributes[Len(attributes)].key = key
        replaced == [i \in 1..Len(attributes) |->
                        IF attributes[i].key = key THEN new ELSE attributes[i]]
    IN  IF found THEN replaced ELSE Append(replaced, new)

Upsert(attributes, id, key, value) ==
    LET new      == [id |-> id, key |-> key, value |-> value]
        found    == \E i \in 1..Len(attributes) : attributes[i].key = key
        replaced == [i \in 1..Len(attributes) |->
                        IF attributes[i].key = key THEN new ELSE attributes[i]]
    IN  IF found THEN replaced ELSE Append(replaced, new)

\* (variant: an id that is not found gets an entry of its own)
handleUpdateCreateOnMiss(w, n) ==
    LET ss      == aspArgumentSplitter(StripParens(w.whens[n].policy))
        id      == At(ss, 0)
        key     == At(ss, 1)
        value   == At(ss, 2)
        entered == Log(w, "handleUpdate", n, w.whens[n].policy)
        old     == IF Found(w, id) THEN w.elements[id].attributes ELSE <<>>
        tmpAttributes == Upsert(old, id, key, value)
    IN  Log([entered EXCEPT !.elements =
                [i \in (DOMAIN w.elements) \cup {id} |->
                    IF i = id
                    THEN [attributes |-> tmpAttributes, object |-> TRUE,
                          tagHtml |-> FALSE]
                    ELSE w.elements[i]]],
            "setAttributes", n, <<id, tmpAttributes>>)

handleUpdate(w, n) ==
    LET ss      == aspArgumentSplitter(StripParens(w.whens[n].policy))
        id      == At(ss, 0)
        key     == At(ss, 1)
        value   == At(ss, 2)
        entered == Log(w, "handleUpdate", n, w.whens[n].policy)
    IN  IF ~Found(w, id) THEN entered
        ELSE LET tmpAttributes == Upsert(w.elements[id].attributes, id, key, value)
                 stored == [entered EXCEPT !.elements[id].attributes = tmpAttributes]
                 set    == IF w.elements[id].object
                           THEN Log(stored, "setAttributes", n, <<id, tmpAttributes>>)
                           ELSE stored
             IN  IF w.elements[id].tagHtml
                 THEN Log(set, "setChildTagAttributes", n, <<id, tmpAttributes>>)
                 ELSE set

----------------------------------------------------------------------------
(* handleContext *)

ValueMarker == <<"_", "v", "a", "l", "u", "e">>

\* position of the first occurrence of pattern in s, 0 when there is none
IndexOf(s, pattern) ==
    LET hits == {i \in 1..(Len(s) - Len(pattern) + 1) :
                    SubSeq(s, i, i + Len(pattern) - 1) = pattern}
    IN  IF hits = {} THEN 0 ELSE CHOOSE i \in hits : \A j \in hits : i <= j

\* value.replace("_value", replacement): the first occurrence, the replacement
\* string read for its $ patterns
ReplaceValueMarker(value, replacement) ==
    LET i      == IndexOf(value, ValueMarker)
        before == SubSeq(value, 1, i - 1)
        after  == SubSeq(value, i + Len(ValueMarker), Len(value))
    IN  IF i = 0 THEN value
        ELSE before \o GetSubstitution(replacement, ValueMarker, <<>>, before, after)
                    \o after

\* lines 236-238: the tokens after the second are joined to the value
RECURSIVE AppendRest(_, _, _)
AppendRest(value, ss, index) ==
    IF index >= Len(ss) THEN value
    ELSE AppendRest(value \o <<",">> \o At(ss, index), ss, index + 1)

\* event is NoEvent for the call made while binding (event == null); an
\* event has a string target value (hasValue) or none
NoEvent == [type |-> "null", hasPage |-> FALSE, pageX |-> 0, pageY |-> 0,
            hasValue |-> FALSE, value |-> <<>>]

\* (variant: the policy is not tested for its number of tokens)
handleContextAnyLength(w, n, event) ==
    LET ss      == aspArgumentSplitter(StripParens(w.whens[n].policy))
        entered == Log(w, "handleContext", n, w.whens[n].policy)
        key     == At(ss, 0)
        value   == At(ss, 1)
        final   == AppendRest(value, ss, 2)
    IN  Log([entered EXCEPT !.context = addContext(w.context, key, final)],
            "addContext", n, <<key, final>>)

handleContext(w, n, event) ==
    LET ss      == aspArgumentSplitter(StripParens(w.whens[n].policy))
        entered == Log(w, "handleContext", n, w.whens[n].policy)
        key     == At(ss, 0)
        value   == At(ss, 1)
        live    == /\ event # NoEvent
                   /\ event.hasValue
                   /\ IndexOf(value, ValueMarker) # 0
    IN  IF Len(ss) < 2 THEN entered
        ELSE IF live /\ event.value = <<>> THEN entered
        ELSE LET substituted == IF live THEN ReplaceValueMarker(value, event.value)
                                ELSE value
                 final == AppendRest(substituted, ss, 2)
             IN  Log([entered EXCEPT !.context = addContext(w.context, key, final)],
                     "addContext", n, <<key, final>>)

----------------------------------------------------------------------------
(* The context menus *)

\* document.getElementById finds a node
HasNode(w, id) == id \in DOMAIN w.dom

IsOpen(w, id) == HasNode(w, id) /\ w.dom[id].display = "block"

\* hideAllContextMenus: the value it returns
AnyWasOpen(w) == \E i \in 1..Len(contextMenus) : IsOpen(w, contextMenus[i])

\* (variant: every node that is displayed is hidden, registered or not)
hideAllContextMenusEveryNode(w) ==
    [w EXCEPT !.dom = [id \in DOMAIN w.dom |->
        IF IsOpen(w, id)
        THEN [w.dom[id] EXCEPT !.display = "none"]
        ELSE w.dom[id]]]

\* hideAllContextMenus: the state it leaves
hideAllContextMenus(w) ==
    [w EXCEPT !.dom = [id \in DOMAIN w.dom |->
        IF (\E i \in 1..Len(contextMenus) : contextMenus[i] = id) /\ IsOpen(w, id)
        THEN [w.dom[id] EXCEPT !.display = "none"]
        ELSE w.dom[id]]]

\* ContextMenuService.retrieveContextValue finds a registered menu
Registered(key) == \E i \in 1..Len(contextMenus) : contextMenus[i] = key

\* (variant: the open menus are closed and the menu of the policy is toggled)
handleRightClickNoReturn(w, n, event) ==
    LET policy  == w.whens[n].policy
        entered == [Log(w, "handleRightClick", n, policy) EXCEPT !.stopped = TRUE]
        hidden  == hideAllContextMenus(entered)
    IN  IF Registered(policy) /\ event.hasPage /\ HasNode(entered, policy) THEN
            IF entered.dom[policy].display = "block"
            THEN [hidden EXCEPT !.dom[policy].display = "none"]
            ELSE [hidden EXCEPT !.dom[policy] =
                     [display |-> "block",
                      left |-> <<event.pageX, "px">>,
                      top |-> <<event.pageY, "px">>]]
        ELSE hidden

\* (variant: the event is not tested for its coordinates)
handleRightClickAnyEvent(w, n, event) ==
    LET policy  == w.whens[n].policy
        entered == [Log(w, "handleRightClick", n, policy) EXCEPT !.stopped = TRUE]
    IN  IF AnyWasOpen(entered) THEN hideAllContextMenus(entered)
        ELSE IF Registered(policy) /\ HasNode(entered, policy) THEN
            [entered EXCEPT !.dom[policy] =
                [display |-> "block",
                 left |-> <<event.pageX, "px">>,
                 top |-> <<event.pageY, "px">>]]
        ELSE entered

\* (variant: the open menus are left open)
handleRightClickNoHide(w, n, event) ==
    LET policy  == w.whens[n].policy
        entered == [Log(w, "handleRightClick", n, policy) EXCEPT !.stopped = TRUE]
    IN  IF Registered(policy) /\ event.hasPage /\ HasNode(entered, policy) THEN
            IF entered.dom[policy].display = "block"
            THEN [entered EXCEPT !.dom[policy].display = "none"]
            ELSE [entered EXCEPT !.dom[policy] =
                     [display |-> "block",
                      left |-> <<event.pageX, "px">>,
                      top |-> <<event.pageY, "px">>]]
        ELSE entered

handleRightClick(w, n, event) ==
    LET policy  == w.whens[n].policy
        entered == [Log(w, "handleRightClick", n, policy) EXCEPT !.stopped = TRUE]
    IN  IF AnyWasOpen(entered) THEN hideAllContextMenus(entered)
        ELSE IF Registered(policy) /\ event.hasPage /\ HasNode(entered, policy) THEN
            IF entered.dom[policy].display = "block"
            THEN [entered EXCEPT !.dom[policy].display = "none"]
            ELSE [entered EXCEPT !.dom[policy] =
                     [display |-> "block",
                      left |-> <<event.pageX, "px">>,
                      top |-> <<event.pageY, "px">>]]
        ELSE entered

\* document.onclick and document.oncontextmenu
defaultClickContextHandler(w) ==
    IF Len(contextMenus) > 0
    THEN [hideAllContextMenus(w) EXCEPT !.stopped = TRUE]
    ELSE w

----------------------------------------------------------------------------
(* The event binder *)

UPDATE == <<"u", "p", "d", "a", "t", "e">>
CONTEXT == <<"c", "o", "n", "t", "e", "x", "t">>
CALL == <<"c", "a", "l", "l">>
CALLBACK == <<"c", "a", "l", "l", "b", "a", "c", "k">>
SHOW_CONTEXT_MENU ==
    <<"s", "h", "o", "w", "_", "c", "o", "n", "t", "e", "x", "t", "_", "m", "e", "n", "u">>

\* the UTF-16 code unit of a character of an interaction type
CharCode(c) ==
    IF c = "_" THEN 95
    ELSE IF \E i \in 1..26 : LowerCase[i] = c
         THEN 96 + (CHOOSE i \in 1..26 : LowerCase[i] = c)
    ELSE IF \E i \in 1..26 : UpperCase[i] = c
         THEN 64 + (CHOOSE i \in 1..26 : UpperCase[i] = c)
    ELSE 0

\* a < b on strings: code unit by code unit, a proper prefix is smaller
RECURSIVE StringLess(_, _)
StringLess(a, b) ==
    IF b = <<>> THEN FALSE
    ELSE IF a = <<>> THEN TRUE
    ELSE IF CharCode(a[1]) < CharCode(b[1]) THEN TRUE
    ELSE IF CharCode(a[1]) > CharCode(b[1]) THEN FALSE
    ELSE StringLess(Tail(a), Tail(b))

\* the comparison function of lines 297-305
\* (variant: ascending)
CompareAscending(a, b) ==
    IF StringLess(a.interactionType, b.interactionType) THEN -1
    ELSE IF StringLess(b.interactionType, a.interactionType) THEN 1
    ELSE 0

Compare(a, b) ==
    IF StringLess(a.interactionType, b.interactionType) THEN 1
    ELSE IF StringLess(b.interactionType, a.interactionType) THEN -1
    ELSE 0

\* Array.prototype.sort is stable: x goes behind every element that does not
\* compare greater than it
InsertSorted(w, sorted, x) ==
    LET keep == {i \in 0..Len(sorted) :
                    \A j \in 1..i : Compare(w.whens[sorted[j]], w.whens[x]) <= 0}
        at   == CHOOSE i \in keep : \A j \in keep : j <= i
    IN  SubSeq(sorted, 1, at) \o <<x>> \o SubSeq(sorted, at + 1, Len(sorted))

\* (variant: the array is left in the order it has)
SortNot(w, sorted, rest) == sorted \o rest

RECURSIVE Sort(_, _, _)
Sort(w, sorted, rest) ==
    IF rest = <<>> THEN sorted
    ELSE Sort(w, InsertSorted(w, sorted, Head(rest)), Tail(rest))

\* the if chain of lines 308-316
Dispatch(w, n, event) ==
    LET type == w.whens[n].interactionType
    IN  IF type = UPDATE THEN handleUpdate(w, n)
        ELSE IF type = CONTEXT THEN handleContext(w, n, event)
        ELSE IF type = CALL \/ type = CALLBACK THEN handleCallback(w, n)
        ELSE IF type = SHOW_CONTEXT_MENU THEN handleRightClick(w, n, event)
        ELSE w

\* allEvents.forEach of line 307; nothing runs behind a handler that hangs
RECURSIVE ForEach(_, _, _)
ForEach(w, ns, event) ==
    IF ns = <<>> \/ w.hung THEN w
    ELSE ForEach(Dispatch(w, Head(ns), event), Tail(ns), event)

\* lines 276-281: the WhenDtos of one action type, in the order of dos
RECURSIVE Filter(_, _, _)
Filter(ws, supportedAttributeName, from) ==
    IF from > Len(ws) THEN <<>>
    ELSE (IF ws[from].actionType = supportedAttributeName THEN <<from>> ELSE <<>>)
            \o Filter(ws, supportedAttributeName, from + 1)

\* lines 286-290: of the load policies only the context ones are run
\* (variant: every load policy is handed to its interpreter)
ForEachLoadAll(w, ns) == ForEach(w, ns, NoEvent)

RECURSIVE ForEachLoad(_, _)
ForEachLoad(w, ns) ==
    IF ns = <<>> THEN w
    ELSE ForEachLoad(
            IF w.whens[Head(ns)].interactionType = CONTEXT
            THEN handleContext(w, Head(ns), NoEvent) ELSE w,
            Tail(ns))

Kinds == {"click", "input", "right_click"}

\* the DOM event each interaction kind listens to
HtmlEventName(kind) == IF kind = "right_click" THEN "contextmenu" ELSE kind

\* setCallbacks: the three listeners are attached, the load policies run
setCallbacks ==
    /\ ~bound
    /\ bound' = TRUE
    /\ allEvents' = [kind \in Kinds |-> Filter(whens, kind, 1)]
    /\ cursor' = IF Filter(whens, "click", 1) # <<>> THEN "pointer" ELSE cursor
    /\ SetWorld(ForEachLoad(Log(World, "setCallbacks", 0, <<>>),
                            Filter(whens, "load", 1)))
    /\ UNCHANGED <<splitVars, configured, contextMenus>>

\* an event of the kind's type on the element: the listener of lines 296-318
\* sorts its array in place and dispatches it; a click or contextmenu event
\* whose propagation no handler stopped then reaches the document's handler
Listener(kind, event) ==
    /\ bound
    /\ ~hung
    /\ allEvents[kind] # <<>>
    /\ event.type = HtmlEventName(kind)
    /\ LET sorted  == Sort(World, <<>>, allEvents[kind])
           handled == ForEach(Log(World, "listener", 0, event), sorted, event)
           bubbled == IF ~handled.hung /\ ~handled.stopped /\ kind # "input"
                      THEN defaultClickContextHandler(handled)
                      ELSE handled
       IN  /\ allEvents' = [allEvents EXCEPT ![kind] = sorted]
           /\ SetWorld(bubbled)
    /\ UNCHANGED <<splitVars, configured, bound, cursor, contextMenus>>

\* a click or right click that reaches only the document
DocumentClick ==
    /\ ~hung
    /\ SetWorld(defaultClickContextHandler(Log(World, "document", 0, <<>>)))
    /\ UNCHANGED <<splitVars, binderVars, contextMenus>>

----------------------------------------------------------------------------
(* Splitter harness: every bounded argument string, split once *)

SplitAlphabet == {"a", ",", "(", ")"}

SplitExamples ==
    { <<"a", ",", "b", ",", "c">>,
      <<"f", "(", "a", ",", "b", ")", ",", "c">>,
      <<>> }

SplitInputs == StringsUpTo(SplitAlphabet, MaxLen) \cup SplitExamples

InitSplit ==
    /\ aspArguments \in SplitInputs
    /\ splits = <<>>
    /\ splitDone = FALSE
    /\ whens = <<>>
    /\ configured = <<>>
    /\ allEvents = <<>>
    /\ bound = FALSE
    /\ cursor = ""
    /\ context = <<>>
    /\ elements = <<>>
    /\ contextMenus = <<>>
    /\ dom = <<>>
    /\ trace = <<>>
    /\ hung = FALSE

CallSplitter ==
    /\ ~splitDone
    /\ splits' = aspArgumentSplitter(aspArguments)
    /\ splitDone' = TRUE
    /\ UNCHANGED <<aspArguments, binderVars, contextMenus, worldVars>>

NextSplit == CallSplitter

SpecSplit == InitSplit /\ [][NextSplit]_vars

----------------------------------------------------------------------------
(* Properties of the splitter, stated without the scanning loop *)

\* parenthesis depth after the first i characters of s
Depth(s, i) ==
    Cardinality({j \in 1..i : s[j] = "("}) - Cardinality({j \in 1..i : s[j] = ")"})

NeverNegative(s) == \A i \in 0..Len(s) : Depth(s, i) >= 0

\* position of the first closing parenthesis that makes the depth negative
FirstNegative(s) ==
    CHOOSE i \in 1..Len(s) : Depth(s, i) < 0 /\ \A j \in 0..(i - 1) : Depth(s, j) >= 0

\* positions of the commas at depth 0
TopCommas(s) == {i \in 1..Len(s) : s[i] = "," /\ Depth(s, i - 1) = 0}

\* position of the k-th comma at depth 0; 0 before the first, Len(s)+1 after the last
NthTopComma(s, k) ==
    IF k = 0 THEN 0
    ELSE IF k > Cardinality(TopCommas(s)) THEN Len(s) + 1
    ELSE CHOOSE i \in TopCommas(s) : Cardinality({j \in TopCommas(s) : j <= i}) = k

\* the substrings of s delimited by its commas at depth 0
TopLevelFields(s) ==
    [k \in 1..(Cardinality(TopCommas(s)) + 1) |->
        SubSeq(s, NthTopComma(s, k - 1) + 1, NthTopComma(s, k) - 1)]

\* C7: for an argument string whose parenthesis depth never goes negative the
\* splitter returns exactly the substrings delimited by the commas at depth 0,
\* in order and untrimmed, nested commas and parentheses kept inside their
\* token; split("a,b,c") = [a,b,c], split("f(a,b),c") = [f(a,b),c],
\* split("") = [""].
C7_SplitsAtTopLevelCommas ==
    splitDone =>
        /\ NeverNegative(aspArguments) => splits = TopLevelFields(aspArguments)
        /\ aspArguments = <<"a", ",", "b", ",", "c">>
              => splits = << <<"a">>, <<"b">>, <<"c">> >>
        /\ aspArguments = <<"f", "(", "a", ",", "b", ")", ",", "c">>
              => splits = << <<"f", "(", "a", ",", "b", ")">>, <<"c">> >>
        /\ aspArguments = <<>> => splits = << <<>> >>

C7_Witness ==
    /\ splitDone
    /\ aspArguments = <<"(", ",", ")", ",">>
    /\ splits = << <<"(", ",", ")">>, <<>> >>

\* C8: when a closing parenthesis makes the depth negative the splitter stops
\* at that character and returns the tokens completed before it plus the
\* accumulator (which ends with that parenthesis) as last token; nothing
\* located after the parenthesis is returned.
C8_StopsAtNegativeDepth ==
    (splitDone /\ ~NeverNegative(aspArguments)) =>
        LET p      == FirstNegative(aspArguments)
            before == TopLevelFields(SubSeq(aspArguments, 1, p - 1))
        IN  /\ splits = [before EXCEPT ![Len(before)] = Append(@, ")")]
            /\ Join(splits, <<",">>) = SubSeq(aspArguments, 1, p)

C8_Witness ==
    /\ splitDone
    /\ aspArguments = <<"a", ",", ")", "a">>
    /\ splits = << <<"a">>, <<")">> >>

\* the part of s that the loop scans: all of it, or up to the offending parenthesis
Scanned(s) == IF NeverNegative(s) THEN s ELSE SubSeq(s, 1, FirstNegative(s))

\* C9: for every argument string, balanced or not, the splitter returns at
\* least one token, and the last token is the final accumulator (the text
\* after the last comma at depth 0), also when that is empty.
C9_AtLeastOneToken ==
    splitDone =>
        LET sc == Scanned(aspArguments)
        IN  /\ Len(splits) >= 1
            /\ splits[Len(splits)] =
                  SubSeq(sc, NthTopComma(sc, Cardinality(TopCommas(sc))) + 1, Len(sc))

C9_Witness ==
    /\ splitDone
    /\ aspArguments = <<"a", ",">>
    /\ splits = << <<"a">>, <<>> >>

----------------------------------------------------------------------------
(* Callback harness: one callback policy, one content of the context store, *)
(* dispatched once                                                          *)

Marker(key) == ContextMarker \o key \o <<")">>

PolicyPieces ==
    { Marker(<<"x">>), Marker(<<"y">>), ContextMarker,
      <<"_", "v", "a", "l", "u", "e", "(", "y", ")">>,
      <<")">>, <<",">>, <<"p">> }

RECURSIVE PiecesUpTo(_)
PiecesUpTo(n) ==
    IF n = 0 THEN {<<>>}
    ELSE LET shorter == PiecesUpTo(n - 1)
         IN  shorter \cup {s \o p : s \in shorter, p \in PolicyPieces}

ValueAlphabet == {"a", "A", "1", "_", "$"}

XValues ==
    StringsUpTo(ValueAlphabet, MaxValueLen)
      \cup { <<"F", "o", "o">>, <<"5">>, <<"$", "&">>, <<"-", "5">>,
             <<"a", "_", "c", "o", "n", "t", "e", "x", "t">>,
             Marker(<<"x">>), Marker(<<"y">>) }

YValues == { <<"B", "a", "r">>, <<"2">>, Marker(<<"x">>) }

Call(policy) ==
    [actionType |-> "click", interactionType |-> <<"c", "a", "l", "l">>,
     policy |-> policy]

InitCallback ==
    /\ \E policy \in PiecesUpTo(MaxPieces) : whens = <<Call(policy)>>
    /\ configured = <<whens[1].policy>>
    /\ allEvents = <<>>
    /\ bound = FALSE
    /\ cursor = ""
    /\ elements = <<>>
    /\ contextMenus = <<>>
    /\ dom = <<>>
    /\ \E vx \in XValues, vy \in YValues :
          context \in { (<<"x">> :> vx) @@ (<<"y">> :> vy), (<<"x">> :> vx) }
    /\ trace = <<>>
    /\ hung = FALSE
    /\ aspArguments = <<>>
    /\ splits = <<>>
    /\ splitDone = FALSE

DispatchCallback ==
    /\ trace = <<>>
    /\ SetWorld(handleCallback(World, 1))
    /\ UNCHANGED <<splitVars, binderVars, contextMenus>>

NextCallback == DispatchCallback

SpecCallback == InitCallback /\ [][NextCallback]_vars

----------------------------------------------------------------------------
(* Properties of the callback interpreter *)

\* the entries of the trace with operation op
Entries(op) == {i \in 1..Len(trace) : trace[i].op = op}

\* the policy strings handed to DrawFrontendService.policyPost, in order
RECURSIVE PostsOf(_)
PostsOf(t) ==
    IF t = <<>> THEN <<>>
    ELSE IF Head(t).op = "policyPost" THEN <<Head(t).arg>> \o PostsOf(Tail(t))
    ELSE PostsOf(Tail(t))

\* C4: for every policy string and every content of the context store a
\* callback dispatch returns, sets the policy field to a string without a
\* _context_value(...) marker and hands the policy to policyPost exactly once.
C4_CallbackTerminatesAndPostsOnce ==
    trace # <<>> =>
        /\ ~hung
        /\ ~HasMarker(whens[1].policy)
        /\ PostsOf(trace) = <<whens[1].policy>>

\* every marker of s replaced, left to right, by the quoted value of its key;
\* the text put in is not scanned again
RECURSIVE SubstituteOnce(_, _)
SubstituteOnce(s, ctx) ==
    LET m == RegexExec(s)
    IN  IF m.index = 0 THEN s
        ELSE SubSeq(s, 1, m.index - 1) \o Quote(ctx[m.group])
                 \o SubstituteOnce(SubSeq(s, m.last + 1, Len(s)), ctx)

\* the keys of the markers of s, met left to right
RECURSIVE MarkerKeys(_)
MarkerKeys(s) ==
    LET m == RegexExec(s)
    IN  IF m.index = 0 THEN {}
        ELSE {m.group} \cup MarkerKeys(SubSeq(s, m.last + 1, Len(s)))

\* no key of a marker holds an opening parenthesis
NonNested(s) == \A k \in MarkerKeys(s) : \A i \in 1..Len(k) : k[i] # "("

\* C5: for a policy string with non-nested markers and a store whose values
\* hold no marker, the string the callback submits is the input with every
\* marker replaced, left to right, by the (possibly quoted) value of its key,
\* the text outside the markers unchanged.
C5_SubmitsInputWithMarkersReplaced ==
    (/\ trace # <<>>
     /\ NonNested(trace[1].arg)
     /\ MarkerKeys(trace[1].arg) \subseteq DOMAIN context
     /\ \A k \in DOMAIN context : ~HasMarker(context[k]))
    => /\ ~hung
       /\ PostsOf(trace) = <<SubstituteOnce(trace[1].arg, context)>>

IsCapital(c) == \E i \in 1..26 : UpperCase[i] = c

\* C6: a resolved value is wrapped in double quotes exactly when it is
\* non-empty, not made of digits only and its first character is an
\* upper-case character; otherwise it is substituted verbatim.
C6_QuotedExactlyWhenCapitalised ==
    (/\ trace # <<>>
     /\ trace[1].arg = Marker(<<"x">>)
     /\ \A i \in 1..Len(context[<<"x">>]) : context[<<"x">>][i] \notin {"$", "("})
    => LET v == context[<<"x">>]
       IN  PostsOf(trace) =
             << IF Len(v) > 0 /\ ~isNumber(v) /\ IsCapital(v[1])
                THEN <<"\"">> \o v \o <<"\"">>
                ELSE v >>

----------------------------------------------------------------------------
(* The element: a policy list, bound once, then any events *)

When(actionType, interactionType, policy) ==
    [actionType |-> actionType, interactionType |-> interactionType,
     policy |-> policy]

PolicyPool ==
    << When("click", UPDATE, <<"(", "e", ",", "a", ",", "2", ")">>),
       When("click", SHOW_CONTEXT_MENU, <<"m">>),
       When("click", CALL, <<"p", "(">> \o ContextMarker \o <<"x", ")", ")">>),
       When("click", CONTEXT, <<"(", "x", ",", "A", ")">>),
       When("click", UPDATE, <<"(", "e", ",", "b", ",", "3", ")">>),
       When("click", CALLBACK, <<"q">>),
       When("click", <<"n", "o", "n", "e">>, <<"r">>),
       When("input", CONTEXT, <<"(", "x", ",", "_", "v", "a", "l", "u", "e", ")">>),
       When("right_click", SHOW_CONTEXT_MENU, <<"n">>),
       When("load", CONTEXT, <<"(", "x", ",", "b", ")">>),
       When("load", UPDATE, <<"(", "e", ",", "a", ",", "9", ")">>) >>

\* the policies of the pool at the positions S, in the order of the pool
RECURSIVE Pick(_, _)
Pick(S, from) ==
    IF from > Len(PolicyPool) THEN <<>>
    ELSE (IF from \in S THEN <<PolicyPool[from]>> ELSE <<>>) \o Pick(S, from + 1)

Reverse(l) == [i \in 1..Len(l) |-> l[Len(l) + 1 - i]]

\* the policy lists: up to n policies of the pool, in the order of the pool or
\* in the opposite order
PolicyLists(n) ==
    LET chosen == {Pick(S, 1) : S \in {T \in SUBSET (1..Len(PolicyPool)) :
                                          Cardinality(T) <= n}}
    IN  chosen \cup {Reverse(l) : l \in chosen}

InputValues == { <<>>, <<"b">>, <<"A">> }

Events ==
    {[type |-> t, hasPage |-> hp, pageX |-> IF hp THEN 10 ELSE 0,
      pageY |-> IF hp THEN 20 ELSE 0, hasValue |-> FALSE, value |-> <<>>] :
        t \in {"click", "contextmenu"}, hp \in BOOLEAN}
    \cup
    {[type |-> "input", hasPage |-> FALSE, pageX |-> 0, pageY |-> 0,
      hasValue |-> TRUE, value |-> v] : v \in InputValues}
    \cup
    {[type |-> "input", hasPage |-> FALSE, pageX |-> 0, pageY |-> 0,
      hasValue |-> FALSE, value |-> <<>>]}

Closed == [display |-> "none", left |-> <<>>, top |-> <<>>]

Init ==
    /\ whens \in PolicyLists(MaxPolicies)
    /\ configured = [n \in 1..Len(whens) |-> whens[n].policy]
    /\ allEvents = [kind \in Kinds |-> <<>>]
    /\ bound = FALSE
    /\ cursor = ""
    /\ context = <<>>
    /\ elements = (<<"e">> :>
          [attributes |-> <<[id |-> <<"e">>, key |-> <<"a">>, value |-> <<"1">>]>>,
           object |-> TRUE, tagHtml |-> TRUE])
    /\ contextMenus = << <<"m">>, <<"n">> >>
    /\ dom = (<<"m">> :> Closed) @@ (<<"n">> :> Closed)
    /\ trace = <<>>
    /\ hung = FALSE
    /\ aspArguments = <<>>
    /\ splits = <<>>
    /\ splitDone = FALSE

Fire == \E kind \in Kinds, event \in Events : Listener(kind, event)

Next ==
    \/ setCallbacks
    \/ Fire
    \/ DocumentClick

Spec == Init /\ [][Next]_vars

----------------------------------------------------------------------------
(* Properties of the listener *)

Interpreters == {"handleUpdate", "handleContext", "handleCallback", "handleRightClick"}

\* the policies the handler that ran last dispatched, in order: positions in
\* the element's policy list
RECURSIVE Dispatched(_)
Dispatched(t) ==
    IF t = <<>> THEN <<>>
    ELSE (IF Head(t).op \in Interpreters THEN <<Head(t).when>> ELSE <<>>)
            \o Dispatched(Tail(t))

TypeOf(n) == whens[n].interactionType

\* C1: in every firing of a listener the policies are dispatched in
\* non-increasing string order of their interactionType, and policies of equal
\* interactionType in the order they have in the element's policy list; this
\* holds for every firing, the first and the later ones.
C1_DispatchedInDescendingStableOrder ==
    LET d == Dispatched(trace)
    IN  \A i, j \in 1..Len(d) :
            i < j => /\ ~StringLess(TypeOf(d[i]), TypeOf(d[j]))
                     /\ TypeOf(d[i]) = TypeOf(d[j]) => d[i] < d[j]

\* a later firing (the call policy was rewritten by an earlier one) whose
\* list holds a call policy between two update policies
C1_Witness ==
    /\ Len(trace) >= 1 /\ trace[1].op = "listener"
    /\ Len(whens) = 3
    /\ TypeOf(1) = UPDATE /\ TypeOf(2) = CALL /\ TypeOf(3) = UPDATE
    /\ Dispatched(trace) = <<1, 3, 2>>
    /\ \E i \in 1..Len(trace) :
          trace[i].op = "handleCallback" /\ trace[i].arg # configured[2]

\* the order of the four groups the claim names
ClaimedRank(type) ==
    IF type = UPDATE THEN 1
    ELSE IF type = CONTEXT THEN 2
    ELSE IF type = CALL \/ type = CALLBACK THEN 3
    ELSE 4

\* C2 as stated: within one firing every update policy is dispatched before
\* every context policy, every context policy before every call/callback
\* policy and every call/callback policy before every show_context_menu
\* policy.
C2_UpdateContextCallMenu ==
    LET d == Dispatched(trace)
    IN  \A i, j \in 1..Len(d) :
            i < j => ClaimedRank(TypeOf(d[i])) <= ClaimedRank(TypeOf(d[j]))

\* the order of the four groups under the comparison of the type strings
StringRank(type) ==
    IF type = UPDATE THEN 1
    ELSE IF type = SHOW_CONTEXT_MENU THEN 2
    ELSE IF type = CONTEXT THEN 3
    ELSE 4

\* C2 amended: within one firing every update policy is dispatched before
\* every show_context_menu policy, every show_context_menu policy before every
\* context policy and every context policy before every call/callback policy.
C2_UpdateMenuContextCall ==
    LET d == Dispatched(trace)
    IN  \A i, j \in 1..Len(d) :
            i < j => StringRank(TypeOf(d[i])) <= StringRank(TypeOf(d[j]))

\* a firing on the list (context, call, show_context_menu)
C2_Witness ==
    /\ Len(trace) >= 1 /\ trace[1].op = "listener"
    /\ Len(whens) = 3
    /\ TypeOf(1) = CONTEXT /\ TypeOf(2) = CALL /\ TypeOf(3) = SHOW_CONTEXT_MENU
    /\ Dispatched(trace) = <<3, 1, 2>>

\* C3: the string a callback dispatch submits is the policy's string with each
\* _context_value(key) marker replaced by the value the context store holds
\* for key at the time of that dispatch, also when the same policy is
\* dispatched again by a later event after the store has changed.
C3_MarkersResolvedAtDispatchTime ==
    \A i \in 1..Len(trace) :
        trace[i].op = "policyPost" =>
            trace[i].arg =
                CallbackLoop(configured[trace[i].when], trace[i].context, MaxIter).policy

----------------------------------------------------------------------------
(* Update harness: a registry of two elements, any update policies in any  *)
(* order                                                                   *)

UpdatePolicy(id, key, value) ==
    <<"(">> \o id \o <<",">> \o key \o <<",">> \o value \o <<")">>

\* e and f are registered, g is not
UpdateIds == { <<"e">>, <<"f">>, <<"g">> }
UpdateKeys == { <<"a">>, <<"b">> }
UpdateValues == { <<"2">>, <<"f", "(", "1", ",", "2", ")">> }

\* the update policies, well formed ones first, then one without a value,
\* one without a key and one with a fourth token
UpdatePolicies ==
    << UpdatePolicy(<<"e">>, <<"a">>, <<"2">>),
       UpdatePolicy(<<"e">>, <<"b">>, <<"2">>),
       UpdatePolicy(<<"e">>, <<"b">>, <<"f", "(", "1", ",", "2", ")">>),
       UpdatePolicy(<<"f">>, <<"a">>, <<"2">>),
       UpdatePolicy(<<"g">>, <<"a">>, <<"2">>),
       <<"(", "e", ",", "a", ")">>,
       <<"(", "f", ")">>,
       <<"(", "f", ",", "b", ",", "2", ",", "z", ")">> >>

InitialKeys == { <<"a">>, <<"b">>, <<"c">> }

\* the attribute sequences an element starts with: pairwise different keys
InitialAttributes(id) ==
    {l \in StringsUpTo({[id |-> id, key |-> k, value |-> <<"1">>] : k \in InitialKeys},
                       MaxAttributes) :
        \A i, j \in 1..Len(l) : i # j => l[i].key # l[j].key}

InitUpdate ==
    /\ whens = [n \in 1..Len(UpdatePolicies) |->
                   When("click", UPDATE, UpdatePolicies[n])]
    /\ configured = [n \in 1..Len(whens) |-> whens[n].policy]
    /\ \E ea \in InitialAttributes(<<"e">>), fa \in InitialAttributes(<<"f">>) :
          elements = (<<"e">> :> [attributes |-> ea, object |-> TRUE, tagHtml |-> FALSE])
                  @@ (<<"f">> :> [attributes |-> fa, object |-> FALSE, tagHtml |-> TRUE])
    /\ allEvents = <<>>
    /\ bound = FALSE
    /\ cursor = ""
    /\ context = <<>>
    /\ contextMenus = <<>>
    /\ dom = <<>>
    /\ trace = <<>>
    /\ hung = FALSE
    /\ aspArguments = <<>>
    /\ splits = <<>>
    /\ splitDone = FALSE

DispatchUpdate ==
    \E n \in 1..Len(whens) :
        /\ SetWorld(handleUpdate(World, n))
        /\ UNCHANGED <<splitVars, binderVars, contextMenus>>

NextUpdate == DispatchUpdate

SpecUpdate == InitUpdate /\ [][NextUpdate]_vars

----------------------------------------------------------------------------
(* Properties of the update interpreter *)

\* C10: an update dispatch with policy (id,key,value) on a registered element
\* is an upsert by key: an entry with the key is replaced in place by
\* {id,key,value}, otherwise {id,key,value} is appended at the end; the
\* entries with another key keep position and value, and the attribute
\* sequences of the other elements are unchanged.
C10_UpdateIsUpsertByKey ==
    \A id \in UpdateIds, key \in UpdateKeys, value \in UpdateValues :
        (/\ trace # <<>>
         /\ trace[1].op = "handleUpdate"
         /\ trace[1].arg = UpdatePolicy(id, key, value)
         /\ id \in DOMAIN trace[1].elements)
        => LET before == trace[1].elements[id].attributes
               after  == elements[id].attributes
               new    == [id |-> id, key |-> key, value |-> value]
               had    == {i \in 1..Len(before) : before[i].key = key}
           IN  /\ \A i \in 1..Len(before) :
                     /\ i <= Len(after)
                     /\ after[i] = IF i \in had THEN new ELSE before[i]
               /\ had # {} => Len(after) = Len(before)
               /\ had = {} => after = Append(before, new)
               /\ \A other \in DOMAIN elements :
                     other # id => elements[other] = trace[1].elements[other]

\* an update that replaces the first of two entries and one that appends
C10_Witness ==
    /\ trace # <<>>
    /\ trace[1].op = "handleUpdate"
    /\ trace[1].arg = UpdatePolicy(<<"e">>, <<"b">>, <<"f", "(", "1", ",", "2", ")">>)
    /\ Len(trace[1].elements[<<"e">>].attributes) = 2
    /\ trace[1].elements[<<"e">>].attributes[1].key = <<"b">>
    /\ elements[<<"e">>].attributes[1].value = <<"f", "(", "1", ",", "2", ")">>
    /\ elements[<<"e">>].attributes[2].key = <<"a">>

\* no two entries of the sequence have the same key
UniqueKeys(attributes) ==
    \A i, j \in 1..Len(attributes) : i # j => attributes[i].key # attributes[j].key

\* C11: when every element's attribute sequence starts with pairwise distinct
\* keys, after any sequence of update dispatches every element's attribute
\* sequence still holds at most one entry per key.
C11_AtMostOneEntryPerKey ==
    \A id \in DOMAIN elements : UniqueKeys(elements[id].attributes)

\* after several updates: f has got a third and a fourth entry (one of them
\* under the key undefined) and its second entry was overwritten
C11_Witness ==
    /\ trace # <<>>
    /\ Len(elements[<<"f">>].attributes) = 4
    /\ elements[<<"f">>].attributes[2].key = <<"a">>
    /\ elements[<<"f">>].attributes[2].value = <<"2">>
    /\ \E i \in 1..4 : elements[<<"f">>].attributes[i].key = UNDEFINED

----------------------------------------------------------------------------
(* A second element: load policies of every interaction type, and an update *)
(* of an element that is not registered                                     *)

LoadPool ==
    << When("load", CONTEXT, <<"(", "x", ",", "b", ")">>),
       When("load", UPDATE, <<"(", "e", ",", "a", ",", "9", ")">>),
       When("load", CALL, <<"p", "(">> \o ContextMarker \o <<"x", ")", ")">>),
       When("load", SHOW_CONTEXT_MENU, <<"m">>),
       When("load", CALLBACK, <<"q">>),
       When("load", CONTEXT, <<"(", "y", ",", "_", "v", "a", "l", "u", "e", ")">>),
       When("click", UPDATE, <<"(", "g", ",", "a", ",", "5", ")">>),
       When("click", UPDATE, <<"(", "e", ",", "a", ",", "2", ")">>),
       When("click", CALL, <<"p", "(">> \o ContextMarker \o <<"x", ")", ")">>) >>

\* the policies of pool at the positions S, in the order of the pool
RECURSIVE PickFrom(_, _, _)
PickFrom(pool, S, from) ==
    IF from > Len(pool) THEN <<>>
    ELSE (IF from \in S THEN <<pool[from]>> ELSE <<>>) \o PickFrom(pool, S, from + 1)

\* up to n policies of pool, in the order of the pool or in the opposite order
ListsOf(pool, n) ==
    LET chosen == {PickFrom(pool, S, 1) :
                      S \in {T \in SUBSET (1..Len(pool)) : Cardinality(T) <= n}}
    IN  chosen \cup {Reverse(l) : l \in chosen}

InitLoad ==
    /\ whens \in ListsOf(LoadPool, MaxPolicies)
    /\ configured = [n \in 1..Len(whens) |-> whens[n].policy]
    /\ allEvents = [kind \in Kinds |-> <<>>]
    /\ bound = FALSE
    /\ cursor = ""
    /\ context = <<>>
    /\ elements = (<<"e">> :>
          [attributes |-> <<[id |-> <<"e">>, key |-> <<"a">>, value |-> <<"1">>]>>,
           object |-> TRUE, tagHtml |-> TRUE])
    /\ contextMenus = << <<"m">>, <<"n">> >>
    /\ dom = (<<"m">> :> Closed) @@ (<<"n">> :> Closed)
    /\ trace = <<>>
    /\ hung = FALSE
    /\ aspArguments = <<>>
    /\ splits = <<>>
    /\ splitDone = FALSE

SpecLoad == InitLoad /\ [][Next]_vars

----------------------------------------------------------------------------
(* Properties of an update that finds no element, and of the load policies *)

\* the stores as the trace entry after entry i finds them, or as the handler
\* leaves them when i is the last entry
ElementsAfter(i) == IF i < Len(trace) THEN trace[i + 1].elements ELSE elements

\* the interaction kind of the listener whose trace this is
KindOf(event) == IF event.type = "contextmenu" THEN "right_click" ELSE event.type

HasInterpreter(type) ==
    type \in {UPDATE, CONTEXT, CALL, CALLBACK, SHOW_CONTEXT_MENU}

\* C12: an update dispatch whose id matches no element of the registry is
\* skipped: no attribute sequence changes, neither setAttributes nor
\* setChildTagAttributes is called, and the other policies of the same event
\* are dispatched all the same.
C12_UpdateOfUnknownElementSkipped ==
    \A i \in 1..Len(trace) :
        (/\ trace[i].op = "handleUpdate"
         /\ trace[i].arg = UpdatePolicy(<<"g">>, <<"a">>, <<"5">>))
        => /\ ElementsAfter(i) = trace[i].elements
           /\ DOMAIN elements = DOMAIN trace[i].elements
           /\ \A j \in 1..Len(trace) :
                 trace[j].when = trace[i].when => trace[j].op = "handleUpdate"
           /\ ~hung
           /\ trace[1].op = "listener"
           /\ LET mine == allEvents[KindOf(trace[1].arg)]
              IN  Dispatched(trace) =
                    SelectSeq(mine, LAMBDA n : HasInterpreter(TypeOf(n)))

\* a click on the list (call, update of e, update of g): g is dispatched
\* first of the two updates, e is updated and the call is posted after it
C12_Witness ==
    /\ Len(trace) >= 1 /\ trace[1].op = "listener"
    /\ Len(whens) = 3
    /\ whens[2].policy = <<"(", "e", ",", "a", ",", "2", ")">>
    /\ whens[3].policy = UpdatePolicy(<<"g">>, <<"a">>, <<"5">>)
    /\ Dispatched(trace) = <<2, 3, 1>>
    /\ elements[<<"e">>].attributes[1].value = <<"2">>
    /\ Len(PostsOf(trace)) = 1

LoadPolicies == {n \in 1..Len(whens) : whens[n].actionType = "load"}

\* C15: no listener is attached for the load policies; while binding, each
\* load policy of interaction type context is dispatched exactly once, in the
\* order of the list and without an event; a load policy of another
\* interaction type is never dispatched, neither while binding nor by a later
\* event: it changes no attribute, submits nothing and changes no menu.
C15_LoadRunsContextOnlyOnce ==
    /\ \A kind \in DOMAIN allEvents : \A i \in 1..Len(allEvents[kind]) :
          allEvents[kind][i] \notin LoadPolicies
    /\ \A j \in 1..Len(trace) :
          trace[j].when \in LoadPolicies
            => /\ trace[1].op = "setCallbacks"
               /\ TypeOf(trace[j].when) = CONTEXT
               /\ trace[j].op \in {"handleContext", "addContext"}
               /\ trace[j].op = "addContext" =>
                     trace[j].arg = <<At(aspArgumentSplitter(
                                            StripParens(configured[trace[j].when])), 0),
                                      At(aspArgumentSplitter(
                                            StripParens(configured[trace[j].when])), 1)>>
    /\ (Len(trace) >= 1 /\ trace[1].op = "setCallbacks")
          => /\ Dispatched(trace) =
                  SelectSeq([n \in 1..Len(whens) |-> n],
                            LAMBDA n : n \in LoadPolicies /\ TypeOf(n) = CONTEXT)
             /\ elements = trace[1].elements
             /\ dom = trace[1].dom
             /\ PostsOf(trace) = <<>>
    /\ \A n \in LoadPolicies : whens[n].policy = configured[n]

\* a click behind the binding of (load update, load context with _value,
\* click update): the store has the marker itself, the attribute has the
\* value of the click policy
C15_Witness ==
    /\ Len(trace) >= 1 /\ trace[1].op = "listener"
    /\ Len(whens) = 3
    /\ whens[1].actionType = "load" /\ TypeOf(1) = UPDATE
    /\ whens[2].actionType = "load" /\ TypeOf(2) = CONTEXT
    /\ whens[3].actionType = "click" /\ TypeOf(3) = UPDATE
    /\ context = (<<"y">> :> ValueMarker)
    /\ elements[<<"e">>].attributes[1].value = <<"2">>

----------------------------------------------------------------------------
(* Context harness: context policies with 1, 2 and 3 tokens, dispatched in  *)
(* any order with any event                                                 *)

ContextPolicies ==
    << <<"(", "x", ",">> \o ValueMarker \o <<")">>,
       <<"(", "y", ",", "a">> \o ValueMarker \o <<")">>,
       <<"(", "x", ",", "1", ")">>,
       <<"(", "x", ",">> \o ValueMarker \o <<",", "c", ")">>,
       <<"(", "x", ")">>,
       <<"(", ")">>,
       <<>> >>

\* what the target of the event holds
ContextValues ==
    { <<>>, <<"h", "i">>, <<"A">>, <<"$", "$">>, <<"$", "&">>, <<"$", Apostrophe>> }

ContextEvents ==
    {[type |-> "input", hasPage |-> FALSE, pageX |-> 0, pageY |-> 0,
      hasValue |-> TRUE, value |-> v] : v \in ContextValues}
    \cup
    {[type |-> "click", hasPage |-> TRUE, pageX |-> 10, pageY |-> 20,
      hasValue |-> FALSE, value |-> <<>>],
     NoEvent}

InitContext ==
    /\ whens = [n \in 1..Len(ContextPolicies) |->
                   When("input", CONTEXT, ContextPolicies[n])]
    /\ configured = [n \in 1..Len(whens) |-> whens[n].policy]
    /\ context \in { <<>>, (<<"x">> :> <<"0">>) }
    /\ allEvents = <<>>
    /\ bound = FALSE
    /\ cursor = ""
    /\ elements = <<>>
    /\ contextMenus = <<>>
    /\ dom = <<>>
    /\ trace = <<>>
    /\ hung = FALSE
    /\ aspArguments = <<>>
    /\ splits = <<>>
    /\ splitDone = FALSE

DispatchContext ==
    \E n \in 1..Len(whens), event \in ContextEvents :
        /\ SetWorld(handleContext(Log(World, "listener", 0, event), n, event))
        /\ UNCHANGED <<splitVars, binderVars, contextMenus>>

NextContext == DispatchContext

SpecContext == InitContext /\ [][NextContext]_vars

----------------------------------------------------------------------------
(* Properties of the context interpreter *)

\* the tokens of a context policy
TokensOf(policy) == aspArgumentSplitter(StripParens(policy))

\* C13: a context dispatch whose policy, the outer parentheses stripped,
\* splits into fewer than 2 tokens writes nothing: the context store is after
\* the dispatch what it was before, and the handler comes to its end.
C13_FewerThanTwoTokensNoWrite ==
    \A i \in 1..Len(trace) :
        (trace[i].op = "handleContext" /\ Len(TokensOf(trace[i].arg)) < 2)
        => /\ context = trace[i].context
           /\ Entries("addContext") = {}
           /\ ~hung

\* the policy (x) dispatched with an event that holds a value, on a store
\* that earlier dispatches have filled
C13_Witness ==
    /\ Len(trace) = 2
    /\ trace[2].op = "handleContext"
    /\ trace[2].arg = <<"(", "x", ")">>
    /\ trace[1].arg # NoEvent /\ trace[1].arg.hasValue
    /\ DOMAIN context = { <<"x">>, <<"y">> }

\* value with its first marker replaced by v, v taken as it is
PlainReplace(value, v) ==
    LET i == IndexOf(value, ValueMarker)
    IN  IF i = 0 THEN value
        ELSE SubSeq(value, 1, i - 1) \o v
               \o SubSeq(value, i + Len(ValueMarker), Len(value))

\* C14: a context dispatch of a policy (k,value) whose value token holds the
\* marker _value, by an event whose target holds the string v: when v is
\* empty the context store is left as it was; otherwise the store afterwards
\* maps k to the value token with the marker replaced by v.
C14_ValueMarkerReplacedByEventValue ==
    \A i \in 1..Len(trace) :
        (/\ trace[i].op = "handleContext"
         /\ Len(TokensOf(trace[i].arg)) = 2
         /\ IndexOf(At(TokensOf(trace[i].arg), 1), ValueMarker) # 0
         /\ trace[1].arg # NoEvent
         /\ trace[1].arg.hasValue)
        => LET key   == At(TokensOf(trace[i].arg), 0)
               value == At(TokensOf(trace[i].arg), 1)
               v     == trace[1].arg.value
           IN  IF v = <<>> THEN context = trace[i].context
               ELSE context = addContext(trace[i].context, key,
                                         PlainReplace(value, v))

----------------------------------------------------------------------------
(* A third element: several policies that show a context menu.  m and n are *)
(* registered menus with a node, r is registered without a node, u is a     *)
(* displayed node that is not registered                                    *)

MenuPool ==
    << When("right_click", SHOW_CONTEXT_MENU, <<"m">>),
       When("right_click", SHOW_CONTEXT_MENU, <<"n">>),
       When("right_click", SHOW_CONTEXT_MENU, <<"m">>),
       When("right_click", SHOW_CONTEXT_MENU, <<"r">>),
       When("right_click", SHOW_CONTEXT_MENU, <<"u">>),
       When("click", SHOW_CONTEXT_MENU, <<"n">>),
       When("click", UPDATE, <<"(", "e", ",", "a", ",", "2", ")">>) >>

Shown(x, y) == [display |-> "block", left |-> <<x, "px">>, top |-> <<y, "px">>]

\* every registered menu starts closed
InitMenu ==
    /\ whens \in ListsOf(MenuPool, MaxPolicies)
    /\ configured = [n \in 1..Len(whens) |-> whens[n].policy]
    /\ allEvents = [kind \in Kinds |-> <<>>]
    /\ bound = FALSE
    /\ cursor = ""
    /\ context = <<>>
    /\ elements = (<<"e">> :>
          [attributes |-> <<[id |-> <<"e">>, key |-> <<"a">>, value |-> <<"1">>]>>,
           object |-> TRUE, tagHtml |-> TRUE])
    /\ contextMenus \in { << <<"m">>, <<"n">>, <<"r">> >>, <<>> }
    /\ dom = (<<"m">> :> Closed) @@ (<<"n">> :> Closed) @@ (<<"u">> :> Shown(1, 2))
    /\ trace = <<>>
    /\ hung = FALSE
    /\ aspArguments = <<>>
    /\ splits = <<>>
    /\ splitDone = FALSE

SpecMenu == InitMenu /\ [][Next]_vars

----------------------------------------------------------------------------
(* Properties of the context menus *)

\* the nodes as the trace entry after entry i finds them, or as the handler
\* leaves them when i is the last entry
DomAfter(i) == IF i < Len(trace) THEN trace[i + 1].dom ELSE dom

\* the registered menus that have a node
Menus == {id \in DOMAIN dom : Registered(id)}

OpenIn(d) == {id \in Menus : d[id].display = "block"}

\* entry i of the trace is the dispatch of a policy that shows a menu
ShowMenuAt(i) ==
    /\ trace[1].op = "listener"
    /\ trace[i].op = "handleRightClick"

\* ... of a registered menu with a node, by an event with page coordinates
ShowMenuWithCoordinatesAt(i) ==
    /\ ShowMenuAt(i)
    /\ trace[1].arg.hasPage
    /\ trace[i].arg \in Menus

\* C16 as stated: the dispatch closes every other menu that was open and
\* toggles m; m open before is hidden, m closed before is shown at the page
\* coordinates of the event, whether or not another menu was open.
C16_ToggledWhateverElseIsOpen ==
    \A i \in 1..Len(trace) :
        ShowMenuWithCoordinatesAt(i)
        => LET m      == trace[i].arg
               before == trace[i].dom
               after  == DomAfter(i)
           IN  /\ \A o \in Menus \ {m} : after[o].display = "none"
               /\ before[m].display = "block" => after[m].display = "none"
               /\ before[m].display # "block"
                    => after[m] = Shown(trace[1].arg.pageX, trace[1].arg.pageY)

\* C16 amended: the dispatch closes every registered menu that was open; m
\* is shown at the page coordinates of the event only when no registered
\* menu was open before the dispatch, and otherwise m is closed afterwards,
\* its position unchanged.
C16_ShownOnlyWhenNoneWasOpen ==
    \A i \in 1..Len(trace) :
        ShowMenuWithCoordinatesAt(i)
        => LET m      == trace[i].arg
               before == trace[i].dom
               after  == DomAfter(i)
           IN  /\ \A o \in Menus \ {m} :
                     after[o] = [before[o] EXCEPT !.display = "none"]
               /\ OpenIn(before) = {}
                    => after[m] = Shown(trace[1].arg.pageX, trace[1].arg.pageY)
               /\ OpenIn(before) # {}
                    => after[m] = [before[m] EXCEPT !.display = "none"]

\* three dispatches in one right click: m is shown, the dispatch for n finds
\* m open and only closes it, the third dispatch shows m again
C16_Witness ==
    /\ Len(trace) = 4
    /\ \A i \in 2..4 : ShowMenuWithCoordinatesAt(i)
    /\ trace[3].arg = <<"n">>
    /\ OpenIn(trace[2].dom) = {}
    /\ OpenIn(trace[3].dom) = { <<"m">> }
    /\ OpenIn(trace[4].dom) = {}
    /\ OpenIn(dom) = { <<"m">> }

\* C17 as stated: a dispatch by an event without numeric pageX and pageY
\* changes nothing: every menu has afterwards the display and the position
\* it had before.
C17_NoCoordinatesNoChange ==
    \A i \in 1..Len(trace) :
        (ShowMenuAt(i) /\ ~trace[1].arg.hasPage) => DomAfter(i) = trace[i].dom

\* C17 amended: a dispatch by an event without numeric pageX and pageY shows
\* no menu and moves none: every registered menu that was open is closed, and
\* everything else is what it was before.
C17_NoCoordinatesOnlyCloses ==
    \A i \in 1..Len(trace) :
        (ShowMenuAt(i) /\ ~trace[1].arg.hasPage)
        => \A id \in DOMAIN dom :
              DomAfter(i)[id] =
                 IF id \in OpenIn(trace[i].dom)
                 THEN [trace[i].dom[id] EXCEPT !.display = "none"]
                 ELSE trace[i].dom[id]

\* a right click without coordinates while m is open: m is closed and keeps
\* its position
C17_Witness ==
    /\ Len(trace) = 2
    /\ ShowMenuAt(2)
    /\ ~trace[1].arg.hasPage
    /\ trace[2].dom[<<"m">>] = Shown(10, 20)
    /\ dom[<<"m">>] = [Shown(10, 20) EXCEPT !.display = "none"]

\* the trace is that of the document's handler, or of a listener whose click
\* or right click went on to the document
ReachedDocument ==
    /\ Len(trace) >= 1
    /\ ~hung
    /\ \/ trace[1].op = "document"
       \/ /\ trace[1].op = "listener"
          /\ trace[1].arg.type # "input"
          /\ Entries("handleRightClick") = {}

\* C18: hideAllContextMenus sets the display of every registered menu that is
\* displayed as "block" to "none", leaves every other node as it is, and
\* returns true exactly when a registered menu was open before the call; so
\* when the document's handler has run with a menu registered, no registered
\* menu is open.
C18_CloseAllClosesRegisteredMenus ==
    /\ LET w      == World
           hidden == hideAllContextMenus(w)
       IN  /\ \A id \in DOMAIN dom :
                 hidden.dom[id] =
                    IF id \in OpenIn(dom)
                    THEN [dom[id] EXCEPT !.display = "none"]
                    ELSE dom[id]
           /\ AnyWasOpen(w) <=> OpenIn(dom) # {}
           /\ AnyWasOpen(w) <=> hidden.dom # dom
    /\ (ReachedDocument /\ Len(contextMenus) > 0)
          => /\ OpenIn(dom) = {}
             /\ \A id \in DOMAIN dom \ Menus : dom[id] = trace[Len(trace)].dom[id]
             /\ \A id \in Menus : dom[id].left = trace[Len(trace)].dom[id].left

\* a click on the document while m is open and the unregistered node u is
\* displayed: m is closed, u stays
C18_Witness ==
    /\ Len(trace) = 1
    /\ trace[1].op = "document"
    /\ OpenIn(trace[1].dom) = { <<"m">> }
    /\ OpenIn(dom) = {}
    /\ dom[<<"u">>].display = "block"

\* C20: from a state in which every registered menu is closed, after any
\* sequence of events (right clicks that dispatch any number of policies that
\* show a registered menu, clicks and right clicks on the document) at most
\* one registered menu is open.
C20_AtMostOneMenuOpen ==
    /\ Cardinality(OpenIn(dom)) <= 1
    /\ \A i \in 1..Len(trace) : Cardinality(OpenIn(trace[i].dom)) <= 1

\* n is open after m was opened and closed again
C20_Witness ==
    /\ Len(contextMenus) = 3
    /\ OpenIn(dom) = { <<"n">> }
    /\ dom[<<"m">>] = [Shown(10, 20) EXCEPT !.display = "none"]

----------------------------------------------------------------------------
(* A fourth element: context policies and callback policies bound to the    *)
(* same events                                                              *)

SamePool ==
    << When("input", CONTEXT, <<"(", "x", ",">> \o ValueMarker \o <<")">>),
       When("input", CALL, <<"p", "(">> \o Marker(<<"x">>) \o <<")">>),
       When("input", CALLBACK, <<"q", "(">> \o Marker(<<"x">>) \o <<")">>),
       When("click", CONTEXT, <<"(", "x", ",", "A", ")">>),
       When("click", CALL, <<"p", "(">> \o Marker(<<"x">>) \o <<")">>) >>

InitSame ==
    /\ whens \in ListsOf(SamePool, MaxPolicies)
    /\ configured = [n \in 1..Len(whens) |-> whens[n].policy]
    /\ allEvents = [kind \in Kinds |-> <<>>]
    /\ bound = FALSE
    /\ cursor = ""
    /\ context = (<<"x">> :> <<"0">>)
    /\ elements = <<>>
    /\ contextMenus \in { <<>>, << <<"m">> >> }
    /\ dom = (<<"m">> :> Closed)
    /\ trace = <<>>
    /\ hung = FALSE
    /\ aspArguments = <<>>
    /\ splits = <<>>
    /\ splitDone = FALSE

SpecSame == InitSame /\ [][Next]_vars

\* C19: when one event fires on an element with a context policy that writes
\* key k and a callback policy whose string holds _context_value(k), in
\* whatever order the list has them, the context write comes before the
\* callback resolves its markers, and the string the callback submits is
\* resolved with the value that event wrote for k.
C19_CallbackSeesContextOfSameEvent ==
    \A i, j \in 1..Len(trace) :
        (/\ trace[1].op = "listener"
         /\ trace[j].op = "addContext"
         /\ trace[i].op = "policyPost"
         /\ trace[j].arg[1] \in MarkerKeys(configured[trace[i].when]))
        => /\ j < i
           /\ trace[i].arg =
                 CallbackLoop(configured[trace[i].when],
                              addContext(trace[j].context,
                                         trace[j].arg[1], trace[j].arg[2]),
                              MaxIter).policy

====
